---------------------------- MODULE Spec2Model ----------------------------
(***************************************************************************)
(* Muse Score dashboard (src/app.py): the scoring engine of a Streamlit    *)
(* script.  One script run reads the widgets (zip_code, agi, calculate)    *)
(* and the cached table df, and either computes the single-area score and  *)
(* the batch muse_score column, reports "ZIP code not found", or shows     *)
(* nothing.                                                                *)
(*                                                                         *)
(* Numbers.  pandas/numpy float64 values are modelled as exact rationals   *)
(* [k |-> "num", n, d] in lowest terms, plus the two special values the    *)
(* code can produce, NaN (0/0) and +inf (x/0, x > 0).  The table holds     *)
(* integer-valued floats of small magnitude, for which every quotient the  *)
(* code compares against a band limit differs from the limit by far more   *)
(* than one unit in the last place; rounding error of the binary format    *)
(* itself is not modelled.                                                 *)
(*                                                                         *)
(* Library behaviour.  round() of a float64 NaN raises ValueError (Python  *)
(* 3, numpy >= 1.19).  Whether agi / 0.0 raises or yields inf depends on   *)
(* whether pandas hands the row value over as a Python float or as a numpy *)
(* float64; both are kept as possible outcomes of a run.                   *)
(***************************************************************************)
EXTENDS Integers, Sequences, FiniteSets, TLC

VARIABLES df, zip_code, agi, calculate, out, call, ret

vars == <<df, zip_code, agi, calculate, out, call, ret>>

appvars == <<df, zip_code, agi, calculate, out>>

---------------------------------------------------------------------------
(* float64 arithmetic: rationals, NaN, +inf                                *)

Abs(x) == IF x < 0 THEN -x ELSE x

RECURSIVE GCD(_, _)
GCD(a, b) == IF b = 0 THEN a ELSE GCD(b, a % b)

NaN == [k |-> "nan", n |-> 0, d |-> 1]

Inf == [k |-> "inf", n |-> 1, d |-> 1]

\* the rational n/d (d # 0) in lowest terms with a positive denominator
Num(n, d) ==
    LET g == GCD(Abs(n), Abs(d))
        s == IF d < 0 THEN -1 ELSE 1
    IN  [k |-> "num", n |-> (s * n) \div g, d |-> (s * d) \div g]

F(i) == Num(i, 1)

IsNum(x) == x.k = "num"

FAdd(a, b) ==
    IF a.k = "nan" \/ b.k = "nan" THEN NaN
    ELSE IF a.k = "inf" \/ b.k = "inf" THEN Inf
    ELSE Num(a.n * b.d + b.n * a.d, a.d * b.d)

FSub(a, b) ==
    IF a.k = "nan" \/ b.k = "nan" THEN NaN
    ELSE IF a.k = "inf" /\ b.k = "inf" THEN NaN
    ELSE IF a.k = "inf" THEN Inf
    ELSE IF b.k = "inf" THEN NaN
    ELSE Num(a.n * b.d - b.n * a.d, a.d * b.d)

FMul(a, b) ==
    IF a.k = "nan" \/ b.k = "nan" THEN NaN
    ELSE IF a.k = "inf" \/ b.k = "inf"
         THEN IF (a.k = "num" /\ a.n <= 0) \/ (b.k = "num" /\ b.n <= 0) THEN NaN ELSE Inf
    ELSE Num(a.n * b.n, a.d * b.d)

\* numpy true division: 0/0 is NaN and x/0 is inf, without an exception
FDiv(a, b) ==
    IF a.k = "nan" \/ b.k = "nan" THEN NaN
    ELSE IF a.k = "inf" THEN (IF b.k = "num" /\ b.n > 0 THEN Inf ELSE NaN)
    ELSE IF b.k = "inf" THEN F(0)
    ELSE IF b.n = 0 THEN (IF a.n > 0 THEN Inf ELSE NaN)
    ELSE Num(a.n * b.d, a.d * b.n)

\* a < b; every comparison with NaN is false
FLt(a, b) ==
    IF a.k = "nan" \/ b.k = "nan" THEN FALSE
    ELSE IF a.k = "inf" THEN FALSE
    ELSE IF b.k = "inf" THEN TRUE
    ELSE a.n * b.d < b.n * a.d

\* a <= b, used to state ranges
FLe(a, b) == FLt(a, b) \/ (a.k # "nan" /\ a = b)

\* round half to even of a rational, as an integer
RoundHalfEven(x) ==
    LET fl == x.n \div x.d
        r2 == 2 * (x.n - fl * x.d)
    IN  IF r2 < x.d THEN fl
        ELSE IF r2 > x.d THEN fl + 1
        ELSE IF fl % 2 = 0 THEN fl ELSE fl + 1

\* elementwise float series helpers
SeriesMin(series) ==
    CHOOSE m \in {series[i] : i \in DOMAIN series} :
        \A j \in DOMAIN series : m <= series[j]

SeriesMax(series) ==
    CHOOSE m \in {series[i] : i \in DOMAIN series} :
        \A j \in DOMAIN series : m >= series[j]

---------------------------------------------------------------------------
(* Utility functions, src/app.py lines 23-47                               *)

\* variant: divides by series.max() instead of the range
normalize_by_max(series) ==
    LET lo == SeriesMin(series)
        hi == SeriesMax(series)
    IN  [i \in DOMAIN series |->
            LET scaled == FMul(F(100), FSub(F(series[i]), F(lo)))
            IN  FDiv(scaled, F(hi))]

\* 100 * (series - series.min()) / (series.max() - series.min())
normalize(series) ==
    LET lo == SeriesMin(series)
        hi == SeriesMax(series)
        span == FSub(F(hi), F(lo))
    IN  [i \in DOMAIN series |->
            LET scaled == FMul(F(100), FSub(F(series[i]), F(lo)))
            IN  FDiv(scaled, span)]

\* 100 * (series.max() - series) / (series.max() - series.min())
inverse_normalize(series) ==
    LET lo == SeriesMin(series)
        hi == SeriesMax(series)
        span == FSub(F(hi), F(lo))
    IN  [i \in DOMAIN series |->
            LET scaled == FMul(F(100), FSub(F(hi), F(series[i])))
            IN  FDiv(scaled, span)]

\* what agi / pcpi does when pcpi is 0.0, by the type of the operand: a Python
\* float raises ZeroDivisionError, a numpy float64 yields inf
DivZero == {"raise", "inf"}

ZeroDivision(a, pcpi, dz) == pcpi = 0 /\ dz = "raise"

\* variant: the 1.0 limit tested with <= instead of <
base_score_from_agi_le(a, pcpi) ==
    LET ratio == FDiv(F(a), F(pcpi))
    IN  IF FLt(ratio, Num(6, 10)) THEN 350
        ELSE IF FLt(ratio, Num(7, 10)) THEN 400
        ELSE IF FLt(ratio, Num(8, 10)) THEN 450
        ELSE IF FLt(ratio, Num(9, 10)) THEN 500
        ELSE IF FLe(ratio, Num(10, 10)) THEN 550
        ELSE IF FLt(ratio, Num(12, 10)) THEN 600
        ELSE IF FLt(ratio, Num(15, 10)) THEN 675
        ELSE IF FLt(ratio, Num(20, 10)) THEN 750
        ELSE IF FLt(ratio, Num(25, 10)) THEN 800
        ELSE 850

\* variant: the bases of the 1.0 and 1.2 bands exchanged
base_score_from_agi_swapped(a, pcpi) ==
    LET ratio == FDiv(F(a), F(pcpi))
    IN  IF FLt(ratio, Num(6, 10)) THEN 350
        ELSE IF FLt(ratio, Num(7, 10)) THEN 400
        ELSE IF FLt(ratio, Num(8, 10)) THEN 450
        ELSE IF FLt(ratio, Num(9, 10)) THEN 500
        ELSE IF FLt(ratio, Num(10, 10)) THEN 600
        ELSE IF FLt(ratio, Num(12, 10)) THEN 550
        ELSE IF FLt(ratio, Num(15, 10)) THEN 675
        ELSE IF FLt(ratio, Num(20, 10)) THEN 750
        ELSE IF FLt(ratio, Num(25, 10)) THEN 800
        ELSE 850

\* the if/elif chain on ratio = agi / pcpi (values in tenths: 0.6 is 6/10)
base_score_from_agi(a, pcpi) ==
    LET ratio == FDiv(F(a), F(pcpi))
    IN  IF FLt(ratio, Num(6, 10)) THEN 350
        ELSE IF FLt(ratio, Num(7, 10)) THEN 400
        ELSE IF FLt(ratio, Num(8, 10)) THEN 450
        ELSE IF FLt(ratio, Num(9, 10)) THEN 500
        ELSE IF FLt(ratio, Num(10, 10)) THEN 550
        ELSE IF FLt(ratio, Num(12, 10)) THEN 600
        ELSE IF FLt(ratio, Num(15, 10)) THEN 675
        ELSE IF FLt(ratio, Num(20, 10)) THEN 750
        ELSE IF FLt(ratio, Num(25, 10)) THEN 800
        ELSE 850

\* variant: the first limit tested with <= instead of <
label_from_score_le(score) ==
    IF score <= 500 THEN "Financially Stressed"
    ELSE IF score < 600 THEN "At Risk"
    ELSE IF score < 700 THEN "Near Stable"
    ELSE IF score < 800 THEN "Good"
    ELSE "Excellent"

label_from_score(score) ==
    IF score < 500 THEN "Financially Stressed"
    ELSE IF score < 600 THEN "At Risk"
    ELSE IF score < 700 THEN "Near Stable"
    ELSE IF score < 800 THEN "Good"
    ELSE "Excellent"

---------------------------------------------------------------------------
(* The cached table df (load_data, lines 9-20): rows that survived dropna, *)
(* so every scoring column is numeric.  Only the columns the scoring reads *)
(* are kept; a zip is the string of its digits.                            *)

Row(z, pcpi, coli, trf, ptr, tr, rsf, sav) ==
    [zip |-> z, PCPI |-> pcpi, COLI |-> coli, TRF |-> trf, PTR |-> ptr,
     TR |-> tr, RSF |-> rsf, Savings |-> sav]

Column(d, c) == [i \in DOMAIN d |-> d[i][c]]

RECURSIVE ZipNumber(_)
ZipNumber(z) == IF z = <<>> THEN 0 ELSE 10 * ZipNumber(SubSeq(z, 1, Len(z) - 1)) + z[Len(z)]

\* variant: zips compared as numbers, as when the column is not read as str
ZipMatch_numeric(a, b) == ZipNumber(a) = ZipNumber(b)

\* df['zip'] == zip_code, string equality
ZipMatch(a, b) == a = b

\* zip_code in df['zip'].values
ZipFound(d, z) == \E i \in DOMAIN d : ZipMatch(d[i].zip, z)

\* df[df['zip'] == zip_code].iloc[0]: position of the first matching row
RowIndex(d, z) ==
    CHOOSE i \in DOMAIN d :
        ZipMatch(d[i].zip, z) /\ \A j \in 1..(i - 1) : ~ZipMatch(d[j].zip, z)

\* w * (x / 100), one term of the adjustment
Weighted(w, x) == FMul(F(w), FDiv(x, F(100)))

\* variant: the COLI weight is 20 instead of 15
RowAdjustment_w20(d, i) ==
    LET COLI == inverse_normalize(Column(d, "COLI"))[i]
        TRF  == inverse_normalize(Column(d, "TRF"))[i]
        PTR  == inverse_normalize(Column(d, "PTR"))[i]
        SITF == inverse_normalize(Column(d, "TR"))[i]
        RSF  == normalize(Column(d, "RSF"))[i]
        ISF  == normalize(Column(d, "Savings"))[i]
    IN  FAdd(FAdd(FAdd(FAdd(FAdd(
            Weighted(20, COLI),
            Weighted(10, TRF)),
            Weighted(10, PTR)),
            Weighted(10, SITF)),
            Weighted(5, RSF)),
            Weighted(5, ISF))

\* lines 66-71 and 74-81: the selected row's six normalized indicators, read
\* at the row's index label, and their weighted sum
RowAdjustment(d, i) ==
    LET COLI == inverse_normalize(Column(d, "COLI"))[i]
        TRF  == inverse_normalize(Column(d, "TRF"))[i]
        PTR  == inverse_normalize(Column(d, "PTR"))[i]
        SITF == inverse_normalize(Column(d, "TR"))[i]
        RSF  == normalize(Column(d, "RSF"))[i]
        ISF  == normalize(Column(d, "Savings"))[i]
    IN  FAdd(FAdd(FAdd(FAdd(FAdd(
            Weighted(15, COLI),
            Weighted(10, TRF)),
            Weighted(10, PTR)),
            Weighted(10, SITF)),
            Weighted(5, RSF)),
            Weighted(5, ISF))

\* lines 88-95: df_copy['adjustment'], one value per row
AdjustmentColumn(d) ==
    LET coli == inverse_normalize(Column(d, "COLI"))
        trf  == inverse_normalize(Column(d, "TRF"))
        ptr  == inverse_normalize(Column(d, "PTR"))
        tr   == inverse_normalize(Column(d, "TR"))
        rsf  == normalize(Column(d, "RSF"))
        sav  == normalize(Column(d, "Savings"))
    IN  [i \in DOMAIN d |->
            FAdd(FAdd(FAdd(FAdd(FAdd(
                Weighted(15, coli[i]),
                Weighted(10, trf[i])),
                Weighted(10, ptr[i])),
                Weighted(10, tr[i])),
                Weighted(5, rsf[i])),
                Weighted(5, sav[i]))]

ScoreCap == 850

\* variant: the cap is missing
FinalScore_nocap(base, adj) == RoundHalfEven(FAdd(F(base), adj))

\* line 82: min(850, round(base_score + adjustment)), for a sum that is a
\* number; round() of a float64 NaN raises ValueError (see Compute)
FinalScore(base, adj) ==
    LET rounded == RoundHalfEven(FAdd(F(base), adj))
    IN  IF ScoreCap <= rounded THEN ScoreCap ELSE rounded

\* Series.clip(upper=u): NaN stays NaN
ClipUpper(x, u) == IF IsNum(x) /\ FLt(F(u), x) THEN F(u) ELSE IF x.k = "inf" THEN F(u) ELSE x

\* Series.round(): half to even, NaN stays NaN
SeriesRound(x) == IF IsNum(x) THEN F(RoundHalfEven(x)) ELSE x

\* variant: the clip is missing
MuseScore_noclip(base, adj) == SeriesRound(FAdd(F(base), adj))

\* line 96: (base_score + adjustment).clip(upper=850).round()
MuseScore(base, adj) ==
    LET sum     == FAdd(F(base), adj)
        clipped == ClipUpper(sum, ScoreCap)
    IN  SeriesRound(clipped)

\* line 87: df_copy['base_score'], one value per row
BaseScoreColumn(d, a) == [i \in DOMAIN d |-> base_score_from_agi(a, d[i].PCPI)]

\* lines 87-96: the three columns added to df_copy
BatchColumns(d, a) ==
    LET base == BaseScoreColumn(d, a)
        adj  == AdjustmentColumn(d)
    IN  [i \in DOMAIN d |->
            [base_score |-> base[i], adjustment |-> adj[i],
             muse_score |-> MuseScore(base[i], adj[i])]]

---------------------------------------------------------------------------
(* One run of the script, lines 53-173.  The result holds the names the    *)
(* run bound, each as a sequence of length 0 (unbound) or 1, the rows of   *)
(* df_copy, and how the run ended: "idle" (button not pressed, nothing     *)
(* shown), "rendered" (score and maps shown), "not_found" (st.error) or    *)
(* "exception" (the run stopped at an uncaught exception).                 *)

Outcome(st, err, bs, adj, fs, lbl, cp) ==
    [status |-> st, error |-> err, base_score |-> bs, adjustment |-> adj,
     final_score |-> fs, score_label |-> lbl, df_copy |-> cp]

Idle == Outcome("idle", "none", <<>>, <<>>, <<>>, <<>>, <<>>)

\* lines 172-173
NotFound == Outcome("not_found", "none", <<>>, <<>>, <<>>, <<>>, <<>>)

\* lines 62-96 when the zip is found.  The run stops at line 73 when the
\* division raises (dzRow), at line 82 when the sum is NaN (round() of a
\* float64 NaN raises ValueError), at line 87 when a division inside apply
\* raises (dzApply).
Compute(d, z, a) ==
    LET i     == RowIndex(d, z)
        bs    == base_score_from_agi(a, d[i].PCPI)
        adj   == RowAdjustment(d, i)
        fs    == FinalScore(bs, adj)
        lbl   == label_from_score(fs)
        zeros == \E j \in DOMAIN d : d[j].PCPI = 0
        batch == BatchColumns(d, a)
        Run(dzRow, dzApply) ==
            IF ZeroDivision(a, d[i].PCPI, dzRow)
            THEN Outcome("exception", "ZeroDivisionError", <<>>, <<>>, <<>>, <<>>, <<>>)
            ELSE IF ~IsNum(FAdd(F(bs), adj))
            THEN Outcome("exception", "ValueError", <<bs>>, <<adj>>, <<>>, <<>>, <<>>)
            ELSE IF zeros /\ dzApply = "raise"
            THEN Outcome("exception", "ZeroDivisionError", <<bs>>, <<adj>>, <<fs>>, <<lbl>>, <<>>)
            ELSE Outcome("rendered", "none", <<bs>>, <<adj>>, <<fs>>, <<lbl>>, batch)
    IN  {Run(dzRow, dzApply) : dzRow \in DivZero, dzApply \in DivZero}

\* the outcomes one run can have, over the zero-division behaviours of the
\* installed pandas
Script(d, z, a, calc) ==
    IF calc /\ ZipFound(d, z) THEN Compute(d, z, a)
    ELSE IF calc THEN {NotFound}
    ELSE {Idle}

---------------------------------------------------------------------------
(* Inputs                                                                  *)

MaxRows == 3

\* st.number_input bounds and default, st.text_input default
MinAgi == 1000

MaxAgi == 1000000

DefaultAgi == 80000

DefaultZip == <<1, 0, 0, 0, 1>>

AgiInputs == {1000, 64000, 80000, 160000}

ZipInputs == {<<1, 0, 0, 0, 1>>, <<0, 1, 0, 0, 1>>, <<0, 0, 5, 0, 1>>, <<1, 0, 0, 1>>}

\* rows a spreadsheet can hold: best, worst and middle indicators (the middle
\* row repeats a zip), and rows whose PCPI is zero or negative
TableRows ==
    {Row(<<1, 0, 0, 0, 1>>, 80000, 1, 1, 1, 1, 3, 3),
     Row(<<0, 1, 0, 0, 1>>, 80000, 3, 3, 3, 3, 1, 1),
     Row(<<1, 0, 0, 0, 1>>, 64000, 2, 2, 2, 2, 2, 2),
     Row(<<0, 0, 5, 0, 1>>, 0, 2, 1, 3, 2, 3, 1),
     Row(<<0, 0, 5, 0, 1>>, -50000, 3, 2, 1, 3, 2, 3)}

Tables == UNION {[1..n -> TableRows] : n \in 0..MaxRows}

\* direct calls of the utility functions: the arguments tried
MaxLen == 3

MaxVal == 2

MaxAgiStep == 130

MinScore == 300

SeriesSet == UNION {[1..n -> 0..MaxVal] : n \in 1..MaxLen}

AgiDomain == {2000 * k : k \in 1..MaxAgiStep} \cup {MinAgi, MaxAgi}

PcpiDomain == {-50000, 0, 64000, 80000, 100000}

ScoreDomain == MinScore..ScoreCap

NoCall == [fn |-> "none"]

Pending == [raised |-> "none", value |-> <<>>]

Return(v) == [raised |-> "none", value |-> <<v>>]

Raise(e) == [raised |-> e, value |-> <<>>]

---------------------------------------------------------------------------
(* The dashboard: widget changes and button presses, each a script rerun   *)

Init ==
    /\ df \in Tables
    /\ zip_code = DefaultZip
    /\ agi = DefaultAgi
    /\ calculate = FALSE
    /\ out = Idle
    /\ call = NoCall
    /\ ret = Pending

\* typing a ZIP code reruns the script with the button unpressed
SetZip ==
    /\ \E z \in ZipInputs :
        /\ z # zip_code
        /\ zip_code' = z
        /\ out' \in Script(df, z, agi, FALSE)
    /\ calculate' = FALSE
    /\ UNCHANGED <<df, agi, call, ret>>

\* changing the AGI reruns the script with the button unpressed
SetAgi ==
    /\ \E a \in AgiInputs :
        /\ a # agi
        /\ a >= MinAgi /\ a <= MaxAgi
        /\ agi' = a
        /\ out' \in Script(df, zip_code, a, FALSE)
    /\ calculate' = FALSE
    /\ UNCHANGED <<df, zip_code, call, ret>>

\* pressing Calculate reruns the script with calculate = True
Calculate ==
    /\ calculate' = TRUE
    /\ out' \in Script(df, zip_code, agi, TRUE)
    /\ UNCHANGED <<df, zip_code, agi, call, ret>>

Next == SetZip \/ SetAgi \/ Calculate

Spec == Init /\ [][Next]_vars

---------------------------------------------------------------------------
(* The utility functions called on their own                               *)

InitFn ==
    /\ df = <<>>
    /\ zip_code = DefaultZip
    /\ agi = DefaultAgi
    /\ calculate = FALSE
    /\ out = Idle
    /\ ret = Pending
    /\ call \in [fn : {"normalize", "inverse_normalize"}, series : SeriesSet]
          \cup [fn : {"base_score_from_agi"}, agi : AgiDomain, pcpi : PcpiDomain]
          \cup [fn : {"label_from_score"}, score : ScoreDomain]

CallNormalize ==
    /\ call.fn = "normalize"
    /\ ret' = Return(normalize(call.series))
    /\ UNCHANGED <<call, appvars>>

CallInverseNormalize ==
    /\ call.fn = "inverse_normalize"
    /\ ret' = Return(inverse_normalize(call.series))
    /\ UNCHANGED <<call, appvars>>

\* base_score_from_agi(a, pcpi) for the same pcpi and any agi
CallBaseScore ==
    /\ call.fn = "base_score_from_agi"
    /\ \E a \in AgiDomain, dz \in DivZero :
        /\ call' = [call EXCEPT !.agi = a]
        /\ ret' = IF ZeroDivision(a, call.pcpi, dz)
                  THEN Raise("ZeroDivisionError")
                  ELSE Return(base_score_from_agi(a, call.pcpi))
    /\ UNCHANGED appvars

CallLabel ==
    /\ call.fn = "label_from_score"
    /\ ret' = Return(label_from_score(call.score))
    /\ UNCHANGED <<call, appvars>>

NextFn == CallNormalize \/ CallInverseNormalize \/ CallBaseScore \/ CallLabel

SpecFn == InitFn /\ [][NextFn]_vars

---------------------------------------------------------------------------
(* Properties of the utility functions, checked under SpecFn               *)

Returned == ret.value # <<>>

BandLimits == <<6, 7, 8, 9, 10, 12, 15, 20, 25>>

BandBases == <<350, 400, 450, 500, 550, 600, 675, 750, 800, 850>>

\* the base of the first band, in ascending order, whose limit exceeds a / p:
\* the limits at or below the ratio are skipped (limits in tenths, p > 0)
ExpectedBase(a, p) ==
    BandBases[1 + Cardinality({k \in DOMAIN BandLimits : BandLimits[k] * p <= 10 * a})]

\* C1: for agi > 0 and PCPI > 0, base_score_from_agi returns the base of the
\* first band whose upper limit is strictly greater than agi / PCPI; a ratio
\* exactly on a limit falls in the higher band (agi = PCPI gives 600), and
\* agi = 40000 with PCPI = 100000 gives 350.
C1_BaseScoreBands ==
    (call.fn = "base_score_from_agi" /\ Returned /\ call.agi > 0 /\ call.pcpi > 0) =>
        /\ ret.value[1] = ExpectedBase(call.agi, call.pcpi)
        /\ (call.agi = call.pcpi => ret.value[1] = 600)
        /\ (call.agi = 40000 /\ call.pcpi = 100000 => ret.value[1] = 350)

C1_Witness ==
    /\ call.fn = "base_score_from_agi"
    /\ call.agi = 80000 /\ call.pcpi = 80000
    /\ ret = Return(600)

Degenerate(series) == SeriesMax(series) = SeriesMin(series)

IsNormalizeCall == call.fn \in {"normalize", "inverse_normalize"}

\* C3: on a degenerate column (max = min, a single element included)
\* normalize and inverse_normalize return exactly 50.0 for every element,
\* never a NaN.
C3_DegenerateFallback ==
    (IsNormalizeCall /\ Returned /\ Degenerate(call.series)) =>
        \A i \in DOMAIN call.series : ret.value[1][i] = F(50)

\* C6: on a non-degenerate column normalize(x) and inverse_normalize(x) lie in
\* [0, 100] and sum to 100; the minimum maps to 0 and 100, the maximum to 100
\* and 0.
C6_NormalizeRange ==
    (IsNormalizeCall /\ Returned /\ ~Degenerate(call.series)) =>
        LET series == call.series
            n == IF call.fn = "normalize" THEN ret.value[1] ELSE normalize(series)
            v == IF call.fn = "inverse_normalize" THEN ret.value[1]
                 ELSE inverse_normalize(series)
        IN  \A i \in DOMAIN series :
                /\ IsNum(n[i]) /\ FLe(F(0), n[i]) /\ FLe(n[i], F(100))
                /\ IsNum(v[i]) /\ FLe(F(0), v[i]) /\ FLe(v[i], F(100))
                /\ FAdd(n[i], v[i]) = F(100)
                /\ (series[i] = SeriesMin(series) => n[i] = F(0) /\ v[i] = F(100))
                /\ (series[i] = SeriesMax(series) => n[i] = F(100) /\ v[i] = F(0))

C6_Witness ==
    /\ call.fn = "normalize"
    /\ call.series = <<0, 1, 2>>
    /\ ret = Return(<<F(0), F(50), F(100)>>)

\* C7: for a fixed PCPI > 0, calling base_score_from_agi again with an agi
\* that is not smaller never returns a smaller base score.
C7_Monotonic ==
    [][(/\ call.fn = "base_score_from_agi" /\ call'.fn = "base_score_from_agi"
        /\ call.pcpi > 0 /\ call'.pcpi = call.pcpi
        /\ ret.value # <<>> /\ ret'.value # <<>>
        /\ call.agi <= call'.agi)
       => ret.value[1] <= ret'.value[1]]_vars

C7_Witness ==
    /\ call.fn = "base_score_from_agi"
    /\ call.pcpi = 80000 /\ call.agi = 200000
    /\ ret = Return(850)

LabelLimits == <<500, 600, 700, 800>>

LabelNames == <<"Financially Stressed", "At Risk", "Near Stable", "Good", "Excellent">>

ExpectedLabel(score) ==
    LabelNames[1 + Cardinality({k \in DOMAIN LabelLimits : LabelLimits[k] <= score})]

\* C9: the label depends on the score alone: below 500 Financially Stressed,
\* below 600 At Risk, below 700 Near Stable, below 800 Good, otherwise
\* Excellent; a score exactly on a limit takes the higher band's label.
C9_LabelBands ==
    (call.fn = "label_from_score" /\ Returned) =>
        /\ ret.value[1] = ExpectedLabel(call.score)
        /\ (call.score = 500 => ret.value[1] = "At Risk")
        /\ (call.score = 600 => ret.value[1] = "Near Stable")
        /\ (call.score = 700 => ret.value[1] = "Good")
        /\ (call.score = 800 => ret.value[1] = "Excellent")

C9_Witness ==
    /\ call.fn = "label_from_score"
    /\ call.score = 500
    /\ ret = Return("At Risk")

---------------------------------------------------------------------------
(* Properties of the dashboard, checked under Spec                         *)

\* C2: every final score the run computes lies in [300, 850], the single
\* area's final_score and every row of the batch muse_score alike.
C2_FinalScoreRange ==
    /\ \A k \in DOMAIN out.final_score :
        out.final_score[k] >= 300 /\ out.final_score[k] <= 850
    /\ \A i \in DOMAIN out.df_copy :
        /\ IsNum(out.df_copy[i].muse_score)
        /\ FLe(F(300), out.df_copy[i].muse_score)
        /\ FLe(out.df_copy[i].muse_score, F(850))

\* the cap acts: base 800 and adjustment 55 give 850, not 855
C2_Witness ==
    /\ out.status = "rendered"
    /\ out.base_score = <<800>>
    /\ out.adjustment = <<F(55)>>
    /\ out.final_score = <<850>>

Selected == df[RowIndex(df, zip_code)]

\* C4: when the selected area's PCPI is zero or negative the run fails with
\* InvalidInputError and binds no base score, adjustment or final score.
C4_PcpiValidated ==
    (calculate /\ ZipFound(df, zip_code) /\ Selected.PCPI <= 0) =>
        /\ out.status = "exception"
        /\ out.error = "InvalidInputError"
        /\ out.base_score = <<>>
        /\ out.adjustment = <<>>
        /\ out.final_score = <<>>

\* C5: a run with the button pressed and a zip_code that equals the zip of no
\* row reports not-found, computes neither final_score nor the batch
\* columns, and leaves the table as it was.
C5_NotFound ==
    [][(calculate' /\ \A i \in DOMAIN df : df[i].zip # zip_code')
       => /\ out'.status = "not_found"
          /\ out'.base_score = <<>>
          /\ out'.final_score = <<>>
          /\ out'.score_label = <<>>
          /\ out'.df_copy = <<>>
          /\ df' = df]_vars

\* the table holds 01001 and the user asks for 1001
C5_Witness ==
    /\ calculate
    /\ zip_code = <<1, 0, 0, 1>>
    /\ \E i \in DOMAIN df : df[i].zip = <<0, 1, 0, 0, 1>>
    /\ out.status = "not_found"

IndicatorColumns == {"COLI", "TRF", "PTR", "TR", "RSF", "Savings"}

NonDegenerate(d) ==
    /\ d # <<>>
    /\ \A c \in IndicatorColumns : ~Degenerate(Column(d, c))

\* COLI_n, TRF_n, PTR_n, SITF_n, RSF_n, ISF_n of row i
Terms(d, i) ==
    <<inverse_normalize(Column(d, "COLI"))[i], inverse_normalize(Column(d, "TRF"))[i],
      inverse_normalize(Column(d, "PTR"))[i], inverse_normalize(Column(d, "TR"))[i],
      normalize(Column(d, "RSF"))[i], normalize(Column(d, "Savings"))[i]>>

Weights == <<15, 10, 10, 10, 5, 5>>

RECURSIVE WeightedSum(_, _)
WeightedSum(t, k) ==
    IF k = 0 THEN F(0) ELSE FAdd(WeightedSum(t, k - 1), FMul(F(Weights[k]), t[k]))

AdjustmentOk(adj, t) ==
    /\ IsNum(adj)
    /\ FMul(F(100), adj) = WeightedSum(t, 6)
    /\ FLe(F(0), adj) /\ FLe(adj, F(55))
    /\ ((\A k \in 1..6 : t[k] = F(100)) => adj = F(55))
    /\ ((\A k \in 1..6 : t[k] = F(0)) => adj = F(0))

\* C8: when the six indicator columns are non-degenerate, the adjustment of
\* the selected row and of every batch row is the weighted sum of its six
\* normalized terms, lies in [0, 55], is exactly 55 when all terms are 100
\* and exactly 0 when all are 0.
C8_AdjustmentRange ==
    NonDegenerate(df) =>
        /\ \A k \in DOMAIN out.adjustment :
            AdjustmentOk(out.adjustment[k], Terms(df, RowIndex(df, zip_code)))
        /\ \A i \in DOMAIN out.df_copy :
            AdjustmentOk(out.df_copy[i].adjustment, Terms(df, i))

\* the selected row is best in every column, another row worst in every column
C8_Witness ==
    /\ NonDegenerate(df)
    /\ out.status = "rendered"
    /\ out.adjustment = <<F(55)>>
    /\ \E i \in DOMAIN out.df_copy : out.df_copy[i].adjustment = F(0)

\* C10: a rendered run has one batch score per row of the table, the batch
\* score of every row equals the single-area score of that row (round, then
\* cap at 850), and the selected row's batch score is the displayed
\* final_score.
C10_BatchEqualsSingle ==
    out.status = "rendered" =>
        /\ Len(out.df_copy) = Len(df)
        /\ \A i \in DOMAIN df :
            out.df_copy[i].muse_score =
                F(FinalScore(base_score_from_agi(agi, df[i].PCPI), RowAdjustment(df, i)))
        /\ out.df_copy[RowIndex(df, zip_code)].muse_score = F(out.final_score[1])

\* a table of three rows where both orders meet the cap: 800 + 55 = 855 and
\* 850 + 27.5 = 877.5 both give 850
C10_Witness ==
    /\ out.status = "rendered"
    /\ Len(df) = 3
    /\ \E i \in DOMAIN out.df_copy :
        /\ out.df_copy[i].base_score = 800
        /\ out.df_copy[i].adjustment = F(55)
        /\ out.df_copy[i].muse_score = F(850)
    /\ \E i \in DOMAIN out.df_copy :
        /\ out.df_copy[i].base_score = 850
        /\ out.df_copy[i].adjustment = Num(55, 2)
        /\ out.df_copy[i].muse_score = F(850)

===========================================================================
